---- MODULE Spec2Model ----
(***************************************************************************)
(* Verification model of the everything-pdf viewers.                       *)
(*                                                                         *)
(* The repository holds several independent React components.  Each one is *)
(* modelled as its own state machine over its own group of variables; a    *)
(* specification for one component keeps the other groups fixed.           *)
(*                                                                         *)
(*   SpecOverlay  paragraph overlay of the react-pdf viewer (part_002)     *)
(*   SpecCluster  groupSpansIntoParagraphs (part_002)                      *)
(*   SpecProject  text item loop of renderPageAsHTML (HTMLPDFViewer.tsx)   *)
(*   SpecScale    responsive scale and zoom (part_001)                     *)
(*   SpecNav      loading, outline and internal links (part_001)           *)
(*   SpecLoad     loading a document with pdf.js (PDFViewer.tsx)           *)
(*   SpecRender   renderPage and the page surface (PDFViewer.tsx)          *)
(*   SpecPages    PDFPage of the multi-page viewer (HTMLPDFViewer.tsx)     *)
(*   SpecConvert  conversion of pages to images (PDFViewer.tsx)            *)
(*   SpecNavigator  getVisiblePages (ScrollablePDFViewer.tsx)              *)
(***************************************************************************)
EXTENDS Integers, Sequences, FiniteSets, TLC

VARIABLES
    \* ---- paragraph overlay (src/unnamed/part_002, PDFPageComponent) ----
    timer,            \* the 500 ms setupTextInteractions timer is pending
    textLayer,        \* react-pdf has put .react-pdf__Page__textContent in the DOM
    wrappers,         \* the .pdf-paragraph-wrapper elements attached to the text layer
    selected,         \* wrapper -> classList contains 'selected-paragraph'
    wrapperStyle,     \* wrapper -> its backgroundColor / transform / boxShadow
    spanStyle,        \* paragraph -> backgroundColor of its member spans
    browserSelection, \* window.getSelection(): 0 = no range, r = range over paragraph r
    pointer,          \* wrapper the mouse is over, 0 = none
    stale,            \* the attached wrappers were placed for an earlier viewport
    viewportChanged,  \* <Page> got another scale since the effect last ran
    \* ---- groupSpansIntoParagraphs (src/unnamed/part_002, lines 190-238) ----
    spans,            \* the NodeList passed in: the spans' rectangles, in DOM order
    spansArray,       \* the array after sort(): indices into spans
    paragraphs,       \* paragraphs pushed so far: sequences of indices into spans
    currentParagraph, \* the paragraph being filled
    lastBottom,       \* the local lastBottom
    i,                \* the loop index (1-based)
    gpc,              \* position in the function: "idle", "input", "sweep", "done"
    \* ---- renderPageAsHTML's text item loop (src/components/HTMLPDFViewer.tsx) ----
    item,             \* the text item: blank string or not, and its transform
    viewportHeight,   \* viewport.height
    htmlTextLayer,    \* the elements appended to the HTML text layer
    canvasTextLayer,  \* the elements appended to the text layer over a canvas
    ppc,              \* "idle", "item" (callback not yet run), "done"
    \* ---- viewer state the components have in common (useState) ----
    pdfFile,          \* the chosen file, 0 = null
    isLoading,
    error,            \* the message shown, "null" = none
    currentPage,
    scale,            \* the zoom factor, in tenths
    \* ---- PDFPageComponent of src/unnamed/part_001 ----
    pageWidth,        \* width of the page at scale 1, 0 = null
    containerWidth,
    \* ---- the react-pdf viewer of src/unnamed/part_001 ----
    numPages,         \* 0 = null
    outline,          \* file whose outline is shown, 0 = null
    pdfDocument,      \* file of the document proxy kept for the outline, 0 = null
    activeTab,
    isMobile,
    sidebarOpen,
    docLoad,          \* file react-pdf's <Document> is loading, 0 = none
    outlineLoads,     \* pending continuations of onDocumentLoadSuccess
    clicks,           \* pending handleItemClick calls
    itemClickLog,     \* what handleItemClick wrote to the console last
    \* ---- PDFViewer.tsx and the multi-page HTMLPDFViewer.tsx (pdf.js) ----
    pdfDoc,           \* file of the loaded document proxy, 0 = null
    totalPages,
    pdfJsLoaded,
    loads,            \* pending FileReader / getDocument work of handleFileUpload
    uncaught,         \* a promise rejection no handler caught
    container,        \* children of containerRef: the renders whose page container is attached
    renders,          \* the renderPage calls made so far
    pageTasks,        \* PDFPage: page -> position of its renderPage call
    \* ---- image conversion of src/components/PDFViewer.tsx ----
    isConverting,
    conversions,      \* the conversion handlers under way
    downloads,        \* pages whose image a download link was clicked for
    \* ---- PageNavigator of src/components/ScrollablePDFViewer.tsx ----
    pageCount,        \* the numPages prop
    currentVisiblePage,
    rangeWithDots,    \* what getVisiblePages returned, 0 = '...'
    npc               \* "idle", "props" (not yet called), "done"

overlayVars ==
    <<timer, textLayer, wrappers, selected, wrapperStyle, spanStyle,
      browserSelection, pointer, stale, viewportChanged>>

clusterVars ==
    <<spans, spansArray, paragraphs, currentParagraph, lastBottom, i, gpc>>

projectVars == <<item, viewportHeight, htmlTextLayer, canvasTextLayer, ppc>>

sessionVars == <<pdfFile, isLoading, error, currentPage, scale>>

responsiveVars == <<pageWidth, containerWidth>>

reactVars ==
    <<numPages, outline, pdfDocument, activeTab, isMobile, sidebarOpen,
      docLoad, outlineLoads, clicks, itemClickLog>>

pdfjsVars == <<pdfDoc, totalPages, pdfJsLoaded, loads, uncaught>>

renderVars == <<container, renders>>

pagesVars == <<pageTasks>>

convertVars == <<isConverting, conversions, downloads>>

navigatorVars == <<pageCount, currentVisiblePage, rangeWithDots, npc>>

viewerVars ==
    <<sessionVars, responsiveVars, reactVars, pdfjsVars, renderVars, pagesVars>>

vars ==
    <<overlayVars, clusterVars, projectVars, viewerVars, convertVars,
      navigatorVars>>

\* What the actions of one component leave alone: the other components.
OthersOverlay ==
    <<clusterVars, projectVars, viewerVars, convertVars, navigatorVars>>
OthersCluster ==
    <<overlayVars, projectVars, viewerVars, convertVars, navigatorVars>>
OthersProject ==
    <<overlayVars, clusterVars, viewerVars, convertVars, navigatorVars>>
OthersViewer ==
    <<overlayVars, clusterVars, projectVars, convertVars, navigatorVars>>
OthersConvert ==
    <<overlayVars, clusterVars, projectVars, navigatorVars, pdfFile, isLoading,
      currentPage, scale, responsiveVars, reactVars, pdfjsVars, renderVars,
      pagesVars>>
OthersNavigator ==
    <<overlayVars, clusterVars, projectVars, viewerVars, convertVars>>

(***************************************************************************)
(* Paragraph overlay: src/unnamed/part_002                                 *)
(***************************************************************************)

\* Number of paragraphs groupSpansIntoParagraphs finds on the page.
NumRegions == 3

Regions == 1..NumRegions

\* The three looks a wrapper or a span group can have.  "transparent" also
\* stands for a freshly created element, whose backgroundColor is unset.
Styles == {"transparent", "hover", "selected"}



SelectedSet == {r \in wrappers : selected[r]}

InitOverlay ==
    /\ timer = TRUE
    /\ textLayer = FALSE
    /\ wrappers = {}
    /\ selected = [r \in Regions |-> FALSE]
    /\ wrapperStyle = [r \in Regions |-> "transparent"]
    /\ spanStyle = [r \in Regions |-> "transparent"]
    /\ browserSelection = 0
    /\ pointer = 0
    /\ stale = FALSE
    /\ viewportChanged = FALSE

\* react-pdf finishes rendering the page's text layer.
TextLayerRendered ==
    /\ ~textLayer
    /\ textLayer' = TRUE
    /\ UNCHANGED <<timer, wrappers, selected, wrapperStyle, spanStyle,
                   browserSelection, pointer>>
    /\ UNCHANGED <<stale, viewportChanged>>
    /\ UNCHANGED OthersOverlay

\* The timer fires: one wrapper per paragraph is appended to the text layer,
\* or nothing happens when the text layer is not there yet.
setupTextInteractions ==
    /\ timer
    /\ timer' = FALSE
    /\ wrappers' = IF textLayer THEN Regions ELSE wrappers
    /\ UNCHANGED <<textLayer, selected, wrapperStyle, spanStyle,
                   browserSelection, pointer>>
    /\ stale' = FALSE
    /\ UNCHANGED viewportChanged
    /\ UNCHANGED OthersOverlay

\* pageNumber or scale changes: the effect's cleanup (lines 266-283) clears the
\* timer and removes every wrapper, then the effect body starts a new timer.
\* The cleanup touches neither the spans nor the browser selection.  The
\* text layer itself is rebuilt by react-pdf when the page or the scale given
\* to <Page> (line 293, calculateScale()) changes: its spans leave the
\* document, which collapses a range set on them.  It is kept when the scale
\* prop changes under a width-capped calculateScale() (lines 31-37).  When
\* the change was made with a button, the document listener runs for the
\* same click: that is a handleGlobalClick("outside") step of its own.
RerunEffect(rebuilt) ==
    /\ timer' = TRUE
    /\ wrappers' = IF textLayer THEN {} ELSE wrappers
    /\ selected' = [r \in Regions |-> FALSE]
    /\ wrapperStyle' = [r \in Regions |-> "transparent"]
    /\ pointer' = 0
    /\ IF rebuilt
         THEN /\ textLayer' = FALSE
              /\ spanStyle' = [r \in Regions |-> "transparent"]
              /\ browserSelection' = 0
         ELSE UNCHANGED <<textLayer, spanStyle, browserSelection>>
    /\ stale' = FALSE
    /\ viewportChanged' = FALSE
    /\ UNCHANGED OthersOverlay

handleMouseEnter(r) ==
    /\ r \in wrappers
    /\ pointer = 0
    /\ pointer' = r
    /\ wrapperStyle' = [wrapperStyle EXCEPT ![r] = "hover"]
    /\ spanStyle' = [spanStyle EXCEPT ![r] = "hover"]
    /\ UNCHANGED <<timer, textLayer, wrappers, selected, browserSelection>>
    /\ UNCHANGED <<stale, viewportChanged>>
    /\ UNCHANGED OthersOverlay

\* A variant of the test of line 98 that finds no wrapper selected.
LeaveAlwaysClears(r) == FALSE

\* Line 98: the wrapper carries the 'selected-paragraph' class.
KeepsHighlight(r) == selected[r]

handleMouseLeave(r) ==
    /\ r \in wrappers
    /\ pointer = r
    /\ pointer' = 0
    /\ IF ~KeepsHighlight(r)
         THEN /\ wrapperStyle' = [wrapperStyle EXCEPT ![r] = "transparent"]
              /\ spanStyle' = [spanStyle EXCEPT ![r] = "transparent"]
         ELSE UNCHANGED <<wrapperStyle, spanStyle>>
    /\ UNCHANGED <<timer, textLayer, wrappers, selected, browserSelection>>
    /\ UNCHANGED <<stale, viewportChanged>>
    /\ UNCHANGED OthersOverlay

\* A variant of the loop of lines 118-125 that leaves the other wrappers'
\* class alone.
KeepOthersSelected(r) == selected

\* handleClick, lines 114-125: every wrapper but the clicked one loses the
\* 'selected-paragraph' class.
DeselectOthers(r) ==
    [w \in Regions |-> IF w # r THEN FALSE ELSE selected[w]]

\* handleClick, lines 118-125 (styles of the other wrappers).
ResetOtherWrappers(r) ==
    [w \in Regions |-> IF w # r THEN "transparent" ELSE wrapperStyle[w]]

\* Lines 146 and 159-168: deselecting removes every range; selecting
\* replaces them by the range of the clicked paragraph.
SelectionAfterClick(r, isSelected) == IF isSelected THEN 0 ELSE r

\* A variant of lines 132-150 that takes the branch of lines 147-150 always.
AlwaysAddClass(isSelected) == TRUE

\* Lines 132-150: the class is removed from a selected wrapper (line 137) and
\* added to an unselected one (line 148).
ToggleClass(isSelected) == ~isSelected

handleClick(r) ==
    /\ r \in wrappers
    /\ pointer = r
    /\ LET cleared == DeselectOthers(r)
           isSelected == cleared[r]
       IN  /\ selected' = [cleared EXCEPT ![r] = ToggleClass(isSelected)]
           /\ wrapperStyle' =
                 [ResetOtherWrappers(r) EXCEPT
                     ![r] = IF isSelected THEN "transparent" ELSE "selected"]
           /\ spanStyle' =
                 [w \in Regions |->
                     IF w = r /\ ~isSelected THEN "selected" ELSE "transparent"]
           /\ browserSelection' = SelectionAfterClick(r, isSelected)
    /\ UNCHANGED <<timer, textLayer, wrappers, pointer>>
    /\ UNCHANGED <<stale, viewportChanged>>
    /\ UNCHANGED OthersOverlay

\* The document-wide click listener.  A click on a wrapper never reaches it
\* (handleClick stops propagation), so the target is either inside the text
\* layer but off every wrapper, or outside the text layer.
ClickTargets == {"textLayer", "outside"}

\* A variant of lines 357-360 that takes every click for a click outside.
EveryClickIsOutside(target) == TRUE

\* Lines 357-360: the target is neither inside a wrapper nor inside the text
\* layer.
IsClickOutside(target) == target = "outside"

handleGlobalClick(target) ==
    /\ pointer = 0
    /\ IF IsClickOutside(target)
         THEN /\ selected' = [r \in Regions |-> FALSE]
              /\ wrapperStyle' =
                    [r \in Regions |->
                        IF r \in wrappers /\ selected[r]
                          THEN "transparent" ELSE wrapperStyle[r]]
              /\ spanStyle' = [r \in Regions |-> "transparent"]
              /\ browserSelection' = 0
         ELSE UNCHANGED <<selected, wrapperStyle, spanStyle, browserSelection>>
    /\ UNCHANGED <<timer, textLayer, wrappers, pointer>>
    /\ UNCHANGED <<stale, viewportChanged>>
    /\ UNCHANGED OthersOverlay

\* The container or the page width changes (lines 31-37, 39-42, 321-349):
\* calculateScale() gives <Page> another scale while pageNumber and the scale
\* prop, the dependencies of the effect (line 284), stay as they are, so
\* neither the cleanup nor setupTextInteractions runs.  react-pdf renders the
\* page again.  What becomes of the wrappers, which are children of its text
\* layer, is up to the library: a text layer that is emptied and filled again
\* loses them, a text layer whose spans are updated in place keeps them where
\* they were put for the earlier viewport.
ResponsiveScaleChanges(kept) ==
    /\ textLayer /\ ~timer /\ wrappers # {}
    /\ viewportChanged' = TRUE
    /\ IF kept
         THEN /\ stale' = TRUE
              /\ UNCHANGED <<textLayer, wrappers, selected, wrapperStyle,
                             spanStyle, browserSelection, pointer>>
         ELSE /\ stale' = FALSE
              /\ textLayer' = FALSE
              /\ wrappers' = {}
              /\ selected' = [r \in Regions |-> FALSE]
              /\ wrapperStyle' = [r \in Regions |-> "transparent"]
              /\ spanStyle' = [r \in Regions |-> "transparent"]
              /\ browserSelection' = 0
              /\ pointer' = 0
    /\ UNCHANGED timer
    /\ UNCHANGED OthersOverlay

\* The value of the overlay variables in a specification of another component.
IdleOverlay ==
    /\ timer = FALSE
    /\ textLayer = FALSE
    /\ wrappers = {}
    /\ selected = [r \in Regions |-> FALSE]
    /\ wrapperStyle = [r \in Regions |-> "transparent"]
    /\ spanStyle = [r \in Regions |-> "transparent"]
    /\ browserSelection = 0
    /\ pointer = 0
    /\ stale = FALSE
    /\ viewportChanged = FALSE

NextOverlay ==
    \/ TextLayerRendered
    \/ setupTextInteractions
    \/ \E rebuilt \in BOOLEAN : RerunEffect(rebuilt)
    \/ \E kept \in BOOLEAN : ResponsiveScaleChanges(kept)
    \/ \E r \in Regions : handleMouseEnter(r)
    \/ \E r \in Regions : handleMouseLeave(r)
    \/ \E r \in Regions : handleClick(r)
    \/ \E target \in ClickTargets : handleGlobalClick(target)


(***************************************************************************)
(* Paragraph clustering: src/unnamed/part_002, groupSpansIntoParagraphs    *)
(***************************************************************************)

\* Longest span list fed to the clustering.
MaxSpans == 4

\* Same-line threshold of the comparator (line 202), in px.
SameLinePx == 10

\* The gap threshold 0.8 of line 220, in tenths.
GapTenths == 8

\* getBoundingClientRect() of the spans a page can hold: a run on the line at
\* 100, one slightly lower at 106, a tall and a short run at 110, and one run
\* further down at 140.
Rects ==
    { [top |-> 100, left |-> 50, height |-> 10],
      [top |-> 106, left |-> 25, height |-> 10],
      [top |-> 110, left |-> 0,  height |-> 30],
      [top |-> 110, left |-> 60, height |-> 10],
      [top |-> 140, left |-> 0,  height |-> 10] }

\* The spans of a page in small print: a run 2 px high at 100, one 5 px high
\* at 108 to its left, and one 5 px high at 120.
SmallPrint ==
    { [top |-> 100, left |-> 70, height |-> 2],
      [top |-> 108, left |-> 10, height |-> 5],
      [top |-> 120, left |-> 10, height |-> 5] }

Bottom(rect) == rect.top + rect.height

Abs(x) == IF x < 0 THEN -x ELSE x

\* The comparator of lines 197-207.
Compare(a, b) ==
    IF Abs(a.top - b.top) < SameLinePx
      THEN a.left - b.left
      ELSE a.top - b.top

Orderings(n) ==
    {p \in [1..n -> 1..n] : \A a, b \in 1..n : a # b => p[a] # p[b]}

\* Compare is a consistent comparison function on the list: a <= b and
\* b <= c give a <= c.
Consistent(list) ==
    \A a, b, c \in 1..Len(list) :
        (Compare(list[a], list[b]) <= 0 /\ Compare(list[b], list[c]) <= 0)
            => Compare(list[a], list[c]) <= 0

\* p is the stable sort of the list under Compare.
StableSorted(list, p) ==
    \A a, b \in 1..Len(list) :
        a < b => \/ Compare(list[p[a]], list[p[b]]) < 0
                 \/ (Compare(list[p[a]], list[p[b]]) = 0 /\ p[a] < p[b])

\* Array.prototype.sort (line 197): the stable sorted order when the
\* comparator is consistent on the list; an implementation-defined order
\* (any permutation) when it is not.
SortOutcomes(list) ==
    LET consistent == Consistent(list)
    IN  {p \in Orderings(Len(list)) : consistent => StableSorted(list, p)}

FlattenLen(pars) ==
    LET Sum[k \in 0..Len(pars)] ==
            IF k = 0 THEN 0 ELSE Sum[k - 1] + Len(pars[k])
    IN  Sum[Len(pars)]

SpanLists ==
    UNION {[1..n -> Rects] \cup [1..n -> SmallPrint] : n \in 0..MaxSpans}

InitCluster ==
    /\ spans \in SpanLists
    /\ spansArray = <<>>
    /\ paragraphs = <<>>
    /\ currentParagraph = <<>>
    /\ lastBottom = 0
    /\ i = 0
    /\ gpc = "input"

\* The value of the clustering variables in a specification of another component.
IdleCluster ==
    /\ spans = <<>>
    /\ spansArray = <<>>
    /\ paragraphs = <<>>
    /\ currentParagraph = <<>>
    /\ lastBottom = 0
    /\ i = 0
    /\ gpc = "idle"

\* Lines 190-210: the empty list returns at once; otherwise the spans are
\* sorted and the first one opens the first paragraph.
GroupStart ==
    /\ gpc = "input"
    /\ IF Len(spans) = 0
         THEN /\ gpc' = "done"
              /\ UNCHANGED <<spansArray, paragraphs, currentParagraph,
                             lastBottom, i>>
         ELSE /\ \E p \in SortOutcomes(spans) :
                    /\ spansArray' = p
                    /\ currentParagraph' = <<p[1]>>
                    /\ lastBottom' = Bottom(spans[p[1]])
              /\ i' = 2
              /\ gpc' = "sweep"
              /\ UNCHANGED paragraphs
    /\ UNCHANGED spans
    /\ UNCHANGED OthersCluster

\* A variant of line 229 that forgets the running maximum.
LastBottomOfSpanOnly(prev, bottom) == bottom

\* Line 229: lastBottom = Math.max(lastBottom, rect.bottom).
NextLastBottom(prev, bottom) == IF prev > bottom THEN prev ELSE bottom

\* Line 220: gap > lineHeight * 0.8.
SignificantGap(rect, last) ==
    10 * (rect.top - last) > GapTenths * rect.height

\* Lines 212-230: one iteration of the sweep.
SweepStep ==
    /\ gpc = "sweep"
    /\ i <= Len(spansArray)
    /\ LET span == spansArray[i]
           rect == spans[span]
       IN  /\ IF SignificantGap(rect, lastBottom)
                THEN /\ paragraphs' = Append(paragraphs, currentParagraph)
                     /\ currentParagraph' = <<span>>
                ELSE /\ currentParagraph' = Append(currentParagraph, span)
                     /\ UNCHANGED paragraphs
           /\ lastBottom' = NextLastBottom(lastBottom, Bottom(rect))
    /\ i' = i + 1
    /\ UNCHANGED <<spans, spansArray, gpc>>
    /\ UNCHANGED OthersCluster

\* A variant of lines 232-235 that drops the paragraph still being filled.
ReturnWithoutLast(pars, current) == pars

\* Lines 232-237: the last paragraph is pushed and the list returned.
ReturnedParagraphs(pars, current) ==
    IF Len(current) > 0 THEN Append(pars, current) ELSE pars

GroupFinish ==
    /\ gpc = "sweep"
    /\ i > Len(spansArray)
    /\ paragraphs' = ReturnedParagraphs(paragraphs, currentParagraph)
    /\ gpc' = "done"
    /\ UNCHANGED <<spans, spansArray, currentParagraph, lastBottom, i>>
    /\ UNCHANGED OthersCluster

\* handleClick, lines 159-168: the range set for a paragraph of the returned
\* list, as the set of spans it contains.  A span is named by its place in
\* the NodeList, which is its place in the document.  The range starts before
\* spanGroup[0] and ends after the last span of the group; setEndAfter with
\* an end that precedes the start collapses the range onto the end.
SelectedRange(spanGroup) ==
    LET first == spanGroup[1]
        last == spanGroup[Len(spanGroup)]
    IN  IF first <= last THEN first .. last ELSE {}

NextCluster ==
    \/ GroupStart
    \/ SweepStep
    \/ GroupFinish

(***************************************************************************)
(* renderPageAsHTML, the text item loop: src/components/HTMLPDFViewer.tsx   *)
(***************************************************************************)

\* The font size floor of line 240, in px.
MinFontSize == 8

\* transform[0] and transform[3]: upside-down, degenerate, small and normal.
ScaleComponents == {-12, 0, 5, 8, 12}

\* transform[4], transform[5] and viewport.height.
\* transform[1]: an upright run and a rotated one.
Skews == {0, 6}

OriginsX == {0, 50}
OriginsY == {0, 700, 800}
ViewportHeights == {800, 1000}

Items ==
    [blank : BOOLEAN, a : ScaleComponents, b : Skews, d : ScaleComponents,
     x : OriginsX, y : OriginsY]

InitProject ==
    /\ item \in Items
    /\ viewportHeight \in ViewportHeights
    /\ htmlTextLayer = <<>>
    /\ canvasTextLayer = <<>>
    /\ ppc = "item"

\* The value of the projection variables in a specification of another component.
IdleProject ==
    /\ item = [blank |-> TRUE, a |-> 0, b |-> 0, d |-> 0, x |-> 0, y |-> 0]
    /\ viewportHeight = 0
    /\ htmlTextLayer = <<>>
    /\ canvasTextLayer = <<>>
    /\ ppc = "idle"

\* A variant of line 240 without the floor.
FontSizeUnfloored(scaleY) == scaleY

\* Line 240: Math.max(scaleY, 8).
FontSize(scaleY) == IF scaleY > MinFontSize THEN scaleY ELSE MinFontSize

\* Lines 231-255: the element built for an item with visible text.
TextElement(it, height) ==
    LET x == it.x
        y == height - it.y
        scaleX == Abs(it.a)
        scaleY == Abs(it.d)
        fontSize == FontSize(scaleY)
    IN  [left |-> x,
         top |-> y - fontSize,
         fontSize |-> fontSize,
         \* transform: scaleX(scaleX / scaleY), kept as the two terms
         stretch |-> IF scaleX # scaleY THEN <<scaleX, scaleY>> ELSE <<1, 1>>]

\* Lines 228-258: the forEach callback on one item.
ProcessTextItem ==
    /\ ppc = "item"
    /\ htmlTextLayer' =
          IF item.blank
            THEN htmlTextLayer
            ELSE Append(htmlTextLayer, TextElement(item, viewportHeight))
    /\ ppc' = "done"
    /\ UNCHANGED <<item, viewportHeight, canvasTextLayer>>
    /\ UNCHANGED OthersProject

\* renderPageAsCanvas, lines 334-346: the element built for an item.  The
\* font size is Math.sqrt(transform[0]^2 + transform[1]^2); it is kept by its
\* square.  The fallback text layer of PDFViewer.tsx (lines 327-350) builds
\* the same element.
CanvasTextDiv(it) ==
    [left |-> it.x,
     bottom |-> it.y,
     fontSizeSquared |-> it.a * it.a + it.b * it.b]

\* renderPageAsCanvas, lines 331-349: the forEach callback on one item; no
\* item is skipped.
ProcessCanvasTextItem ==
    /\ ppc = "item"
    /\ canvasTextLayer' = Append(canvasTextLayer, CanvasTextDiv(item))
    /\ ppc' = "canvasDone"
    /\ UNCHANGED <<item, viewportHeight, htmlTextLayer>>
    /\ UNCHANGED OthersProject

NextProject ==
    \/ ProcessTextItem
    \/ ProcessCanvasTextItem

(***************************************************************************)
(* Viewer state: initial values (useState) of part_001, PDFViewer.tsx      *)
(***************************************************************************)

\* useState(1.2), in tenths.
DefaultScale == 12

\* useState(800).
DefaultContainerWidth == 800

\* The error messages of the viewers.
NoError == "null"

InitSession ==
    /\ pdfFile = 0
    /\ isLoading = FALSE
    /\ error = NoError
    /\ currentPage = 1
    /\ scale = DefaultScale

InitResponsive ==
    /\ pageWidth = 0
    /\ containerWidth = DefaultContainerWidth

InitReact ==
    /\ numPages = 0
    /\ outline = 0
    /\ pdfDocument = 0
    /\ activeTab = "navigation"
    /\ isMobile = FALSE
    /\ sidebarOpen = FALSE
    /\ docLoad = 0
    /\ outlineLoads = <<>>
    /\ clicks = <<>>
    /\ itemClickLog = ""

InitPdfjs ==
    /\ pdfDoc = 0
    /\ totalPages = 0
    /\ pdfJsLoaded = FALSE
    /\ loads = <<>>
    /\ uncaught = FALSE

InitRenderIdle ==
    /\ container = <<>>
    /\ renders = <<>>

InitPagesIdle == pageTasks = <<>>

\* The value of the viewer variables in a specification of another component.
IdleViewer ==
    /\ InitSession /\ InitResponsive /\ InitReact /\ InitPdfjs
    /\ InitRenderIdle /\ InitPagesIdle

(***************************************************************************)
(* Responsive scale and zoom: src/unnamed/part_001                         *)
(***************************************************************************)

\* containerWidth - 32 (line 56).
Padding == 32

\* Math.max(responsiveScale, 0.3) (line 58) and Math.max(prev - 0.2, 0.3)
\* (line 383), in tenths.
MinScale == 3

\* Math.min(prev + 0.2, 3.0) (line 382), in tenths.
MaxScale == 30

\* The zoom step 0.2 (lines 382-383), in tenths.
ZoomStep == 2

\* viewport.width of a page at scale 1, and the widths of the main panel.
PageWidths == {300, 612, 1200}
ContainerWidths == {0, 20, 32, 320, 800, 1600}

\* A scale is kept as a fraction <<numerator, denominator>> with a positive
\* denominator; the state variable scale is the fraction scale / 10.
FracLeq(p, q) == p[1] * q[2] <= q[1] * p[2]

\* A variant of line 58 without the minimum.
NoMinimum(r) == r

\* Line 58: Math.max(responsiveScale, 0.3).
AtLeastMinimum(r) == IF FracLeq(<<MinScale, 10>>, r) THEN r ELSE <<MinScale, 10>>

\* Lines 53-59.
calculateScale ==
    IF pageWidth = 0 \/ containerWidth = 0
      THEN <<scale, 10>>
      ELSE LET maxWidth == containerWidth - Padding
               desired == <<scale, 10>>
               fit == <<maxWidth, pageWidth>>
               responsiveScale == IF FracLeq(desired, fit) THEN desired ELSE fit
           IN  AtLeastMinimum(responsiveScale)

InitScale ==
    /\ InitSession /\ InitResponsive /\ InitReact /\ InitPdfjs
    /\ InitRenderIdle /\ InitPagesIdle

OthersScale ==
    <<pdfFile, isLoading, error, currentPage, numPages, outline, pdfDocument,
      activeTab, sidebarOpen, docLoad, outlineLoads, clicks, itemClickLog,
      pdfjsVars,
      renderVars, pagesVars, OthersViewer>>

\* Line 382.
zoomIn ==
    /\ scale' = IF scale + ZoomStep < MaxScale THEN scale + ZoomStep ELSE MaxScale
    /\ UNCHANGED <<pageWidth, containerWidth, isMobile>>
    /\ UNCHANGED OthersScale

\* A variant of line 383 without the minimum.
ZoomOutUnclamped ==
    /\ scale' = scale - ZoomStep
    /\ UNCHANGED <<pageWidth, containerWidth, isMobile>>
    /\ UNCHANGED OthersScale

\* Line 383.
zoomOut ==
    /\ scale' = IF scale - ZoomStep > MinScale THEN scale - ZoomStep ELSE MinScale
    /\ UNCHANGED <<pageWidth, containerWidth, isMobile>>
    /\ UNCHANGED OthersScale

\* Line 384.
resetZoom ==
    /\ scale' = DefaultScale
    /\ UNCHANGED <<pageWidth, containerWidth, isMobile>>
    /\ UNCHANGED OthersScale

\* Lines 61-68: the page reports its width at scale 1.
handlePageLoadSuccess(width) ==
    /\ pageWidth' = width
    /\ UNCHANGED <<scale, containerWidth, isMobile>>
    /\ UNCHANGED OthersScale

\* window.innerWidth < 768 (line 181).
MobileBreakpoint == 768

\* Lines 180-188, on mount and on every resize: the window is mobile or not
\* and the main panel, which is no wider than the window, is measured.
checkMobile(mobile, width) ==
    /\ mobile => width < MobileBreakpoint
    /\ isMobile' = mobile
    /\ containerWidth' = width
    /\ UNCHANGED <<scale, pageWidth>>
    /\ UNCHANGED OthersScale

\* Lines 200-206: the main panel is measured again 300 ms after the sidebar
\* opened or closed.
measureContainer(width) ==
    /\ isMobile => width < MobileBreakpoint
    /\ containerWidth' = width
    /\ UNCHANGED <<scale, pageWidth, isMobile>>
    /\ UNCHANGED OthersScale

NextScale ==
    \/ zoomIn
    \/ zoomOut
    \/ resetZoom
    \/ \E width \in PageWidths : handlePageLoadSuccess(width)
    \/ \E mobile \in BOOLEAN, width \in ContainerWidths : checkMobile(mobile, width)
    \/ \E width \in ContainerWidths : measureContainer(width)

(***************************************************************************)
(* Loading, outline and internal links: src/unnamed/part_001               *)
(***************************************************************************)

\* Pending continuations of onDocumentLoadSuccess, pending handleItemClick
\* calls.
MaxOutlineLoads == 1
MaxClicks == 1

\* The files a user can choose: a PDF of three pages with bookmarks, a PDF of
\* two pages without, a file of type application/pdf the renderer rejects,
\* and a file of another type.
Files == 1 .. 4
IsPdf(file) == file # 4
PagesOf(file) == CASE file = 1 -> 3 [] file = 2 -> 2 [] OTHER -> 0
HasOutline(file) == file = 1

ErrInvalidFile == "Please select a valid PDF file."
ErrLoadFailed == "Failed to load the PDF file. It might be corrupted or unsupported."

\* A variant of the type check of the upload handlers that accepts every
\* file.
AnyFileAccepted(file) == TRUE

\* Line 343: file.type !== 'application/pdf'.
Accepted(file) == IsPdf(file)

OthersNav ==
    <<scale, pageWidth, containerWidth, pdfDoc, totalPages, pdfJsLoaded, loads,
      renderVars, pagesVars, OthersViewer>>

\* Lines 342-356.  <Document> gets a new file prop and loads it, dropping the
\* load it had pending.
handleFileUpload(file) ==
    /\ IF ~Accepted(file)
         THEN /\ error' = ErrInvalidFile
              /\ UNCHANGED <<pdfFile, isLoading, currentPage, numPages, outline,
                             pdfDocument, activeTab, docLoad>>
         ELSE /\ isLoading' = TRUE
              /\ error' = NoError
              /\ numPages' = 0
              /\ outline' = 0
              /\ pdfDocument' = 0
              /\ pdfFile' = file
              /\ currentPage' = 1
              /\ activeTab' = "navigation"
              /\ docLoad' = file
    /\ UNCHANGED <<isMobile, sidebarOpen, outlineLoads, clicks, uncaught, itemClickLog>>
    /\ UNCHANGED OthersNav

\* The pending calls are a bag, kept as a sequence in the order of a rank:
\* the calls settle in any order.
Remove(seq, k) == SubSeq(seq, 1, k - 1) \o SubSeq(seq, k + 1, Len(seq))

OutlineLoadRank(task) == 2 * task.file + (IF task.pc = "getOutline" THEN 1 ELSE 0)

ClickRank(task) ==
    (IF task.pc = "getPageIndex" THEN 1 ELSE 0) + (IF task.named THEN 2 ELSE 0)
        + 4 * task.pages + (IF task.mobile THEN 32 ELSE 0)

InsertOutlineLoad(seq, task) ==
    LET before == Cardinality({k \in 1 .. Len(seq) :
                                  OutlineLoadRank(seq[k]) <= OutlineLoadRank(task)})
    IN  SubSeq(seq, 1, before) \o <<task>> \o SubSeq(seq, before + 1, Len(seq))

InsertClick(seq, task) ==
    LET before == Cardinality({k \in 1 .. Len(seq) :
                                  ClickRank(seq[k]) <= ClickRank(task)})
    IN  SubSeq(seq, 1, before) \o <<task>> \o SubSeq(seq, before + 1, Len(seq))

\* Lines 211-222: the synchronous part, up to the first await.  The two
\* awaits of lines 222-223 are one step: nothing is written between them.
onDocumentLoadSuccess ==
    /\ docLoad # 0
    /\ PagesOf(docLoad) > 0
    /\ Len(outlineLoads) < MaxOutlineLoads
    /\ numPages' = PagesOf(docLoad)
    /\ currentPage' = 1
    /\ isLoading' = FALSE
    /\ error' = NoError
    /\ docLoad' = 0
    /\ outlineLoads' =
          InsertOutlineLoad(outlineLoads, [file |-> pdfFile, pc |-> "getDocument"])
    /\ UNCHANGED <<pdfFile, outline, pdfDocument, activeTab, isMobile,
                   sidebarOpen, clicks, uncaught, itemClickLog>>
    /\ UNCHANGED OthersNav

\* Lines 246-252.
onDocumentLoadError ==
    /\ docLoad # 0
    /\ PagesOf(docLoad) = 0
    /\ error' = ErrLoadFailed
    /\ isLoading' = FALSE
    /\ docLoad' = 0
    /\ UNCHANGED <<pdfFile, currentPage, numPages, outline, pdfDocument,
                   activeTab, isMobile, sidebarOpen, outlineLoads, clicks,
                   uncaught, itemClickLog>>
    /\ UNCHANGED OthersNav

\* Lines 223-226: getDocument resolves, or rejects into the catch of line 240.
OutlineDocumentSettles(k, resolved) ==
    /\ k \in 1 .. Len(outlineLoads)
    /\ outlineLoads[k].pc = "getDocument"
    /\ IF resolved
         THEN /\ pdfDocument' = outlineLoads[k].file
              /\ outlineLoads' =
                    InsertOutlineLoad(Remove(outlineLoads, k),
                           [outlineLoads[k] EXCEPT !.pc = "getOutline"])
         ELSE /\ outlineLoads' = Remove(outlineLoads, k)
              /\ UNCHANGED pdfDocument
    /\ UNCHANGED <<pdfFile, isLoading, error, currentPage, numPages, outline,
                   activeTab, isMobile, sidebarOpen, docLoad, clicks, uncaught, itemClickLog>>
    /\ UNCHANGED OthersNav

\* Lines 227-238: getOutline resolves to the bookmarks or to null, or rejects
\* into the catch of line 240.
OutlineSettles(k, resolved) ==
    /\ k \in 1 .. Len(outlineLoads)
    /\ outlineLoads[k].pc = "getOutline"
    /\ outlineLoads' = Remove(outlineLoads, k)
    /\ IF resolved /\ HasOutline(outlineLoads[k].file)
         THEN /\ outline' = outlineLoads[k].file
              /\ activeTab' = "outline"
         ELSE UNCHANGED <<outline, activeTab>>
    /\ UNCHANGED <<pdfFile, isLoading, error, currentPage, numPages,
                   pdfDocument, isMobile, sidebarOpen, docLoad, clicks, uncaught, itemClickLog>>
    /\ UNCHANGED OthersNav

\* Destinations: none, an array that starts with a page reference, with a
\* number, or with something else, and a name.
DestNumbers == {-1, 0, 2, 7}
Dests ==
    [kind : {"none", "ref", "other", "name"}, n : {0}]
        \cup [kind : {"num"}, n : DestNumbers]

\* What getDestination answers: it rejects, or resolves to null or to an
\* explicit destination.
DestinationAnswers ==
    [kind : {"reject", "null", "ref", "other"}, n : {0}]
        \cup [kind : {"num"}, n : DestNumbers]

\* What handleItemClick wrote to the console last (lines 313 and 317).
WarnNoTarget == "warn: Could not determine target page for item"
ErrorItemClick == "error: Error handling item click"

\* A variant of lines 302-306 without the upper limit.
InRangeNoUpperLimit(target, pages) == target # 0 /\ target >= 1

\* Lines 302-306: targetPageNumber && >= 1 && <= (numPages || 1).
InRange(target, pages) ==
    /\ target # 0
    /\ target >= 1
    /\ target <= (IF pages = 0 THEN 1 ELSE pages)

\* Lines 301-315, with the numPages and isMobile of the render whose
\* handleItemClick was called (the dependency list of line 320).
Navigate(target, pages, mobile) ==
    IF InRange(target, pages)
      THEN /\ currentPage' = target
           /\ sidebarOpen' = IF mobile THEN FALSE ELSE sidebarOpen
           /\ UNCHANGED itemClickLog
      ELSE /\ itemClickLog' = WarnNoTarget
           /\ UNCHANGED <<currentPage, sidebarOpen>>

\* Lines 255-300, up to the first await.  Outline items and links are only
\* shown once the page count is known.
handleItemClick(dest) ==
    /\ numPages # 0
    /\ IF pdfDocument = 0
         THEN UNCHANGED <<currentPage, sidebarOpen, clicks, itemClickLog>>
         ELSE IF dest.kind \in {"none", "other"}
           THEN /\ Navigate(0, numPages, isMobile)
                /\ UNCHANGED clicks
         ELSE IF dest.kind = "num"
           THEN /\ Navigate(dest.n + 1, numPages, isMobile)
                /\ UNCHANGED clicks
           ELSE /\ Len(clicks) < MaxClicks
                /\ clicks' = InsertClick(clicks,
                       [pc |-> IF dest.kind = "ref" THEN "getPageIndex"
                                                    ELSE "getDestination",
                        named |-> dest.kind = "name",
                        pages |-> numPages,
                        mobile |-> isMobile])
                /\ UNCHANGED <<currentPage, sidebarOpen, itemClickLog>>
    /\ UNCHANGED <<pdfFile, isLoading, error, numPages, outline, pdfDocument,
                   activeTab, isMobile, docLoad, outlineLoads, uncaught>>
    /\ UNCHANGED OthersNav

\* Lines 279-296: getDestination settles.  A rejection is caught at line 290.
GetDestinationSettles(k, answer) ==
    /\ k \in 1 .. Len(clicks)
    /\ clicks[k].pc = "getDestination"
    /\ IF answer.kind = "ref"
         THEN /\ clicks' = InsertClick(Remove(clicks, k),
                                   [clicks[k] EXCEPT !.pc = "getPageIndex"])
              /\ UNCHANGED <<currentPage, sidebarOpen, itemClickLog>>
         ELSE /\ clicks' = Remove(clicks, k)
              /\ Navigate(IF answer.kind = "num" THEN answer.n + 1 ELSE 0,
                          clicks[k].pages, clicks[k].mobile)
    /\ UNCHANGED <<pdfFile, isLoading, error, numPages, outline, pdfDocument,
                   activeTab, isMobile, docLoad, outlineLoads, uncaught>>
    /\ UNCHANGED OthersNav

\* What getPageIndex answers: the index of a page, or -1 for a rejection.
PageIndexAnswers == -1 .. 2

\* Lines 271 and 285-286: getPageIndex settles: it resolves to the index of
\* a page, or rejects.  Under a named destination the
\* rejection is caught at line 290 and the handler goes on to line 301; else
\* it is caught at line 316.
GetPageIndexSettles(k, index) ==
    /\ k \in 1 .. Len(clicks)
    /\ clicks[k].pc = "getPageIndex"
    /\ clicks' = Remove(clicks, k)
    /\ IF index = -1 /\ ~clicks[k].named
         THEN /\ itemClickLog' = ErrorItemClick
              /\ UNCHANGED <<currentPage, sidebarOpen>>
         ELSE Navigate(index + 1, clicks[k].pages, clicks[k].mobile)
    /\ UNCHANGED <<pdfFile, isLoading, error, numPages, outline, pdfDocument,
                   activeTab, isMobile, docLoad, outlineLoads, uncaught>>
    /\ UNCHANGED OthersNav

PageRequests == {0, 1, 2, 3, 4}

\* Lines 386-390.
goToPage(pageNum) ==
    /\ currentPage' =
          IF pageNum >= 1 /\ pageNum <= (IF numPages = 0 THEN 1 ELSE numPages)
            THEN pageNum ELSE currentPage
    /\ UNCHANGED <<pdfFile, isLoading, error, numPages, outline, pdfDocument,
                   activeTab, isMobile, sidebarOpen, docLoad, outlineLoads,
                   clicks, uncaught, itemClickLog>>
    /\ UNCHANGED OthersNav

\* Lines 392-393.
nextPage == goToPage(currentPage + 1)
prevPage == goToPage(currentPage - 1)

NextNav ==
    \/ \E file \in Files : handleFileUpload(file)
    \/ onDocumentLoadSuccess
    \/ onDocumentLoadError
    \/ \E k \in 1 .. MaxOutlineLoads, resolved \in BOOLEAN :
          OutlineDocumentSettles(k, resolved)
    \/ \E k \in 1 .. MaxOutlineLoads, resolved \in BOOLEAN :
          OutlineSettles(k, resolved)
    \/ \E dest \in Dests : handleItemClick(dest)
    \/ \E k \in 1 .. MaxClicks, answer \in DestinationAnswers :
          GetDestinationSettles(k, answer)
    \/ \E k \in 1 .. MaxClicks, index \in PageIndexAnswers : GetPageIndexSettles(k, index)
    \/ \E pageNum \in PageRequests : goToPage(pageNum)
    \/ nextPage
    \/ prevPage

(***************************************************************************)
(* Loading a document with pdf.js: src/components/PDFViewer.tsx            *)
(***************************************************************************)

\* Pending FileReader and getDocument work of handleFileUpload calls.
MaxLoads == 2

ErrSelectPdf == "Please select a PDF file"
ErrDropPdf == "Please drop a PDF file"
ErrStillLoading == "PDF library is still loading, please try again"
ErrReadFile == "Failed to read file"
ErrLibrary == "Failed to load PDF library"

\* Math.max(prev - 0.2, 0.5) (line 400), in tenths.
PDFViewer_MinScale == 5

OthersLoad == <<responsiveVars, reactVars, renderVars, pagesVars, OthersViewer>>

\* Lines 161-169 and 180-187: a script or the dynamic import has set up
\* window.pdfjsLib.
PdfJsLoaded ==
    /\ pdfJsLoaded' = TRUE
    /\ UNCHANGED <<sessionVars, pdfDoc, totalPages, loads, uncaught>>
    /\ UNCHANGED OthersLoad

\* Lines 172-174: a script failed to load.
PdfJsScriptError ==
    /\ error' = ErrLibrary
    /\ UNCHANGED <<pdfFile, isLoading, currentPage, scale, pdfjsVars>>
    /\ UNCHANGED OthersLoad

LoadRank(task) == 2 * task.file + (IF task.pc = "getDocument" THEN 1 ELSE 0)

InsertLoad(seq, task) ==
    LET before == Cardinality({k \in 1 .. Len(seq) :
                                  LoadRank(seq[k]) <= LoadRank(task)})
    IN  SubSeq(seq, 1, before) \o <<task>> \o SubSeq(seq, before + 1, Len(seq))

\* Line 205: file.type !== 'application/pdf'.
TypeIsPdf(file) == IsPdf(file)

\* Lines 201-250, up to fileReader.readAsArrayBuffer(file).
PDFViewer_handleFileUpload(file) ==
    /\ IF ~TypeIsPdf(file)
         THEN /\ error' = ErrSelectPdf
              /\ UNCHANGED <<pdfFile, isLoading, loads>>
         ELSE IF ~pdfJsLoaded
           THEN /\ error' = ErrStillLoading
                /\ UNCHANGED <<pdfFile, isLoading, loads>>
           ELSE /\ Len(loads) < MaxLoads
                /\ isLoading' = TRUE
                /\ error' = NoError
                /\ pdfFile' = file
                /\ loads' = InsertLoad(loads, [file |-> file, pc |-> "read"])
    /\ UNCHANGED <<currentPage, scale, pdfDoc, totalPages, pdfJsLoaded, uncaught>>
    /\ UNCHANGED OthersLoad

\* Lines 382-393.
PDFViewer_handleDrop(file) ==
    IF IsPdf(file)
      THEN PDFViewer_handleFileUpload(file)
      ELSE /\ error' = ErrDropPdf
           /\ UNCHANGED <<pdfFile, isLoading, currentPage, scale, pdfjsVars>>
           /\ UNCHANGED OthersLoad

\* Lines 221-230: fileReader.onload, up to the await of line 230.
FileReaderLoads(k, hasResult) ==
    /\ k \in 1 .. Len(loads)
    /\ loads[k].pc = "read"
    /\ IF hasResult
         THEN /\ loads' = InsertLoad(Remove(loads, k),
                                     [loads[k] EXCEPT !.pc = "getDocument"])
              /\ UNCHANGED <<error, isLoading>>
         ELSE /\ error' = ErrReadFile
              /\ isLoading' = FALSE
              /\ loads' = Remove(loads, k)
    /\ UNCHANGED <<pdfFile, currentPage, scale, pdfDoc, totalPages, pdfJsLoaded,
                   uncaught>>
    /\ UNCHANGED OthersLoad

\* Lines 237-240: fileReader.onerror.
FileReaderFails(k) ==
    /\ k \in 1 .. Len(loads)
    /\ loads[k].pc = "read"
    /\ error' = ErrReadFile
    /\ isLoading' = FALSE
    /\ loads' = Remove(loads, k)
    /\ UNCHANGED <<pdfFile, currentPage, scale, pdfDoc, totalPages, pdfJsLoaded,
                   uncaught>>
    /\ UNCHANGED OthersLoad

\* Lines 230-234: getDocument(typedArray).promise resolves.
GetDocumentResolves(k) ==
    /\ k \in 1 .. Len(loads)
    /\ loads[k].pc = "getDocument"
    /\ PagesOf(loads[k].file) > 0
    /\ pdfDoc' = loads[k].file
    /\ totalPages' = PagesOf(loads[k].file)
    /\ currentPage' = 1
    /\ isLoading' = FALSE
    /\ loads' = Remove(loads, k)
    /\ UNCHANGED <<pdfFile, error, scale, pdfJsLoaded, uncaught>>
    /\ UNCHANGED OthersLoad

\* Line 230: getDocument(typedArray).promise rejects.  The await is in the
\* async onload callback, which the try of line 219 has returned from long
\* before and which has no handler of its own: the rejection is unhandled.
GetDocumentRejects(k) ==
    /\ k \in 1 .. Len(loads)
    /\ loads[k].pc = "getDocument"
    /\ PagesOf(loads[k].file) = 0
    /\ uncaught' = TRUE
    /\ loads' = Remove(loads, k)
    /\ UNCHANGED <<sessionVars, pdfDoc, totalPages, pdfJsLoaded>>
    /\ UNCHANGED OthersLoad

\* Lines 366-370.
goToNextPage ==
    /\ currentPage' = IF currentPage < totalPages THEN currentPage + 1 ELSE currentPage
    /\ UNCHANGED <<pdfFile, isLoading, error, scale, pdfjsVars>>
    /\ UNCHANGED OthersLoad

\* Lines 372-376.
goToPreviousPage ==
    /\ currentPage' = IF currentPage > 1 THEN currentPage - 1 ELSE currentPage
    /\ UNCHANGED <<pdfFile, isLoading, error, scale, pdfjsVars>>
    /\ UNCHANGED OthersLoad

\* Lines 395-397.
PDFViewer_zoomIn ==
    /\ scale' = IF scale + ZoomStep < MaxScale THEN scale + ZoomStep ELSE MaxScale
    /\ UNCHANGED <<pdfFile, isLoading, error, currentPage, pdfjsVars>>
    /\ UNCHANGED OthersLoad

\* Lines 399-401.
PDFViewer_zoomOut ==
    /\ scale' = IF scale - ZoomStep > PDFViewer_MinScale THEN scale - ZoomStep
                                                        ELSE PDFViewer_MinScale
    /\ UNCHANGED <<pdfFile, isLoading, error, currentPage, pdfjsVars>>
    /\ UNCHANGED OthersLoad

NextLoad ==
    \/ PdfJsLoaded
    \/ PdfJsScriptError
    \/ \E file \in Files : PDFViewer_handleFileUpload(file)
    \/ \E file \in Files : PDFViewer_handleDrop(file)
    \/ \E k \in 1 .. MaxLoads, hasResult \in BOOLEAN : FileReaderLoads(k, hasResult)
    \/ \E k \in 1 .. MaxLoads : FileReaderFails(k)
    \/ \E k \in 1 .. MaxLoads : GetDocumentResolves(k)
    \/ \E k \in 1 .. MaxLoads : GetDocumentRejects(k)
    \/ goToNextPage
    \/ goToPreviousPage
    \/ PDFViewer_zoomIn
    \/ PDFViewer_zoomOut

(***************************************************************************)
(* The page surface: renderPage of src/components/PDFViewer.tsx            *)
(***************************************************************************)

\* renderPage calls made while one document is shown.
MaxRenders == 3

ErrRenderPage == "Failed to render PDF page"

OthersRender ==
    <<pdfFile, isLoading, pdfjsVars, responsiveVars, reactVars, pagesVars,
      OthersViewer>>

\* A document of three pages has been loaded (lines 230-234) and the effect
\* of lines 360-364 has called renderPage(1), which waits for getPage.
DocumentShown ==
    /\ pdfFile = 1 /\ isLoading = FALSE /\ error = NoError
    /\ currentPage = 1 /\ scale = DefaultScale
    /\ pdfDoc = 1 /\ totalPages = PagesOf(1) /\ pdfJsLoaded = TRUE
    /\ loads = <<>> /\ uncaught = FALSE
    /\ container = <<>>
    /\ renders = <<[page |-> 1, scale |-> DefaultScale, pc |-> "getPage"]>>
    /\ InitResponsive /\ InitReact /\ InitPagesIdle

\* Lines 264-270: renderPage up to the await of getPage.  The container is
\* emptied; nothing is done about the calls still under way.
renderPage(pageNumber, viewportScale) ==
    /\ container' = <<>>
    /\ renders' = Append(renders, [page |-> pageNumber, scale |-> viewportScale,
                                   pc |-> "getPage"])

\* Lines 360-364: the effect calls renderPage when the page or the scale
\* (through the renderPage callback) has changed.
RenderEffect ==
    IF pdfDoc # 0 /\ <<currentPage', scale'>> # <<currentPage, scale>>
      THEN renderPage(currentPage', scale')
      ELSE UNCHANGED renderVars

\* zoomIn (lines 395-397) and the effect.
ZoomInWithDocument ==
    /\ Len(renders) < MaxRenders
    /\ scale' = IF scale + ZoomStep < MaxScale THEN scale + ZoomStep ELSE MaxScale
    /\ UNCHANGED <<currentPage, error>>
    /\ RenderEffect
    /\ UNCHANGED OthersRender

\* zoomOut (lines 399-401) and the effect.
ZoomOutWithDocument ==
    /\ Len(renders) < MaxRenders
    /\ scale' = IF scale - ZoomStep > PDFViewer_MinScale THEN scale - ZoomStep
                                                        ELSE PDFViewer_MinScale
    /\ UNCHANGED <<currentPage, error>>
    /\ RenderEffect
    /\ UNCHANGED OthersRender

\* goToNextPage (lines 366-370) and the effect.
NextPageWithDocument ==
    /\ Len(renders) < MaxRenders
    /\ currentPage' = IF currentPage < totalPages THEN currentPage + 1 ELSE currentPage
    /\ UNCHANGED <<scale, error>>
    /\ RenderEffect
    /\ UNCHANGED OthersRender

\* goToPreviousPage (lines 372-376) and the effect.
PreviousPageWithDocument ==
    /\ Len(renders) < MaxRenders
    /\ currentPage' = IF currentPage > 1 THEN currentPage - 1 ELSE currentPage
    /\ UNCHANGED <<scale, error>>
    /\ RenderEffect
    /\ UNCHANGED OthersRender

\* Lines 352-355: the catch of renderPage.
RenderFailed(k) ==
    /\ renders' = [renders EXCEPT ![k].pc = "failed"]
    /\ error' = ErrRenderPage

\* Lines 270-305: getPage settles; the canvas, the text layer and the page
\* container are made for the scale of this call and the page container is
\* appended to the container.
GetPageSettles(k, resolved) ==
    /\ k \in 1 .. Len(renders)
    /\ renders[k].pc = "getPage"
    /\ IF resolved
         THEN /\ container' = Append(container, k)
              /\ renders' = [renders EXCEPT ![k].pc = "render"]
              /\ UNCHANGED error
         ELSE /\ RenderFailed(k)
              /\ UNCHANGED container
    /\ UNCHANGED <<currentPage, scale>>
    /\ UNCHANGED OthersRender

\* Line 312: page.render settles; the canvas of this call is drawn.
PageRenderSettles(k, resolved) ==
    /\ k \in 1 .. Len(renders)
    /\ renders[k].pc = "render"
    /\ IF resolved
         THEN /\ renders' = [renders EXCEPT ![k].pc = "getTextContent"]
              /\ UNCHANGED error
         ELSE RenderFailed(k)
    /\ UNCHANGED <<container, currentPage, scale>>
    /\ UNCHANGED OthersRender

\* Lines 315-351: getTextContent settles; the text layer of this call is
\* filled.
GetTextContentSettles(k, resolved) ==
    /\ k \in 1 .. Len(renders)
    /\ renders[k].pc = "getTextContent"
    /\ IF resolved
         THEN /\ renders' = [renders EXCEPT ![k].pc = "done"]
              /\ UNCHANGED error
         ELSE RenderFailed(k)
    /\ UNCHANGED <<container, currentPage, scale>>
    /\ UNCHANGED OthersRender

NextRender ==
    \/ ZoomInWithDocument
    \/ ZoomOutWithDocument
    \/ NextPageWithDocument
    \/ PreviousPageWithDocument
    \/ \E k \in 1 .. MaxRenders, resolved \in BOOLEAN : GetPageSettles(k, resolved)
    \/ \E k \in 1 .. MaxRenders, resolved \in BOOLEAN : PageRenderSettles(k, resolved)
    \/ \E k \in 1 .. MaxRenders, resolved \in BOOLEAN :
          GetTextContentSettles(k, resolved)

(***************************************************************************)
(* The pages of the multi-page viewer: PDFPage of HTMLPDFViewer.tsx        *)
(***************************************************************************)

\* pdfDoc.numPages of the document shown: one PDFPage each (lines 1018-1026).
PagesShown == 3

\* useState(1.5) (line 790), in tenths.
HTMLPDFViewer_DefaultScale == 15

OthersPages ==
    <<pdfFile, currentPage, scale, totalPages, pdfJsLoaded, loads, uncaught,
      responsiveVars, reactVars, renderVars, OthersViewer>>

\* A document has been loaded (lines 884-885), its pages are mounted and the
\* effect of each (lines 721-771) has called renderPage, which waits for
\* getPage.
PagesMounted ==
    /\ pdfFile = 1 /\ isLoading = FALSE /\ error = NoError
    /\ currentPage = 1 /\ scale = HTMLPDFViewer_DefaultScale
    /\ pdfDoc = 1 /\ totalPages = PagesShown /\ pdfJsLoaded = TRUE
    /\ loads = <<>> /\ uncaught = FALSE
    /\ pageTasks = [p \in 1 .. PagesShown |->
                      [pc |-> "getPage", canvas |-> "blank", text |-> FALSE]]
    /\ InitResponsive /\ InitReact /\ InitRenderIdle

\* A variant of the catch that reports the failure to the viewer, which
\* drops the document.
CatchAbortsDocument(p) ==
    /\ pageTasks' = [pageTasks EXCEPT ![p].pc = "failed"]
    /\ error' = ErrRenderPage
    /\ pdfDoc' = 0
    /\ UNCHANGED isLoading

\* Lines 765-767: the catch of PDFPage's renderPage writes to the console.
PDFPage_catch(p) ==
    /\ pageTasks' = [pageTasks EXCEPT ![p].pc = "failed"]
    /\ UNCHANGED <<error, pdfDoc, isLoading>>

\* A variant of lines 726-749 that builds the text layer as soon as the page
\* is there, before the canvas is drawn.
PDFPage_getPageWithText(p, resolved) ==
    /\ p \in DOMAIN pageTasks
    /\ pageTasks[p].pc = "getPage"
    /\ IF resolved
         THEN /\ pageTasks' = [pageTasks EXCEPT ![p].pc = "render",
                                                ![p].canvas = "sized",
                                                ![p].text = TRUE]
              /\ UNCHANGED <<error, pdfDoc, isLoading>>
         ELSE PDFPage_catch(p)
    /\ UNCHANGED OthersPages

\* Lines 726-749: getPage settles; the container and the canvas of the page
\* get the size of the viewport.
PDFPage_getPage(p, resolved) ==
    /\ p \in DOMAIN pageTasks
    /\ pageTasks[p].pc = "getPage"
    /\ IF resolved
         THEN /\ pageTasks' = [pageTasks EXCEPT ![p].pc = "render",
                                                ![p].canvas = "sized"]
              /\ UNCHANGED <<error, pdfDoc, isLoading>>
         ELSE PDFPage_catch(p)
    /\ UNCHANGED OthersPages

\* Lines 751-752: page.render settles; the canvas is drawn.
PDFPage_render(p, resolved) ==
    /\ p \in DOMAIN pageTasks
    /\ pageTasks[p].pc = "render"
    /\ IF resolved
         THEN /\ pageTasks' = [pageTasks EXCEPT ![p].pc = "getTextContent",
                                                ![p].canvas = "drawn"]
              /\ UNCHANGED <<error, pdfDoc, isLoading>>
         ELSE PDFPage_catch(p)
    /\ UNCHANGED OthersPages

\* Lines 755-764: getTextContent settles; the text layer is emptied and
\* built.
PDFPage_getTextContent(p, resolved) ==
    /\ p \in DOMAIN pageTasks
    /\ pageTasks[p].pc = "getTextContent"
    /\ IF resolved
         THEN /\ pageTasks' = [pageTasks EXCEPT ![p].pc = "done",
                                                ![p].text = TRUE]
              /\ UNCHANGED <<error, pdfDoc, isLoading>>
         ELSE PDFPage_catch(p)
    /\ UNCHANGED OthersPages

NextPages ==
    \/ \E p \in 1 .. PagesShown, resolved \in BOOLEAN : PDFPage_getPage(p, resolved)
    \/ \E p \in 1 .. PagesShown, resolved \in BOOLEAN : PDFPage_render(p, resolved)
    \/ \E p \in 1 .. PagesShown, resolved \in BOOLEAN :
          PDFPage_getTextContent(p, resolved)

(***************************************************************************)
(* Image conversion: src/components/PDFViewer.tsx, lines 403-508           *)
(***************************************************************************)

\* Conversion handlers under way at once.
MaxConversions == 2

ErrConvertPage == "Failed to convert page to image"

ConversionKinds == {"preview", "single", "all"}

InitConvert ==
    /\ isConverting = FALSE
    /\ conversions = <<>>
    /\ downloads = {}

IdleConvert == InitConvert

\* Lines 406-410: convertPageToImage up to the await of getPage.
convertPageToImage(kind, pageNumber) ==
    [kind |-> kind, page |-> pageNumber, pc |-> "getPage"]

\* Lines 652, 660 and 668: the three buttons are disabled while isConverting.
ButtonEnabled == ~isConverting

\* Lines 502-503: previewCurrentPageAsImage up to the first await.
previewCurrentPageAsImage ==
    /\ ButtonEnabled
    /\ pdfDoc # 0
    /\ Len(conversions) < MaxConversions
    /\ isConverting' = TRUE
    /\ conversions' = Append(conversions, convertPageToImage("preview", currentPage))
    /\ UNCHANGED <<downloads, error>>
    /\ UNCHANGED OthersConvert

\* Lines 452-453: downloadCurrentPageAsImage up to the first await.
downloadCurrentPageAsImage ==
    /\ ButtonEnabled
    /\ pdfDoc # 0
    /\ Len(conversions) < MaxConversions
    /\ isConverting' = TRUE
    /\ conversions' = Append(conversions, convertPageToImage("single", currentPage))
    /\ UNCHANGED <<downloads, error>>
    /\ UNCHANGED OthersConvert

\* Lines 468-477: downloadAllPagesAsImages up to the first await, the one of
\* convertPageToImage(1).
downloadAllPagesAsImages ==
    /\ ButtonEnabled
    /\ pdfDoc # 0 /\ totalPages # 0
    /\ Len(conversions) < MaxConversions
    /\ isConverting' = TRUE
    /\ conversions' = Append(conversions, convertPageToImage("all", 1))
    /\ UNCHANGED <<downloads, error>>
    /\ UNCHANGED OthersConvert

\* Lines 476-477 and 494-498: the loop of downloadAllPagesAsImages goes on
\* to the next page, whose convertPageToImage sets the flag (line 409), or
\* ends, and the finally of line 497 clears the flag.  The other two
\* handlers end here.
HandlerGoesOn(k) ==
    IF conversions[k].kind = "all" /\ conversions[k].page < totalPages
      THEN /\ conversions' =
                 [conversions EXCEPT ![k] =
                     convertPageToImage("all", conversions[k].page + 1)]
           /\ isConverting' = TRUE
      ELSE /\ conversions' = Remove(conversions, k)
           /\ isConverting' = FALSE

\* Lines 440-446: the catch and the finally of convertPageToImage, which
\* returns null; the caller skips its if (imageUrl).
ConversionFailed(k) ==
    /\ error' = ErrConvertPage
    /\ HandlerGoesOn(k)
    /\ UNCHANGED downloads

\* Line 410: getPage settles.
ConvertGetPageSettles(k, resolved) ==
    /\ k \in 1 .. Len(conversions)
    /\ conversions[k].pc = "getPage"
    /\ IF resolved
         THEN /\ conversions' = [conversions EXCEPT ![k].pc = "render"]
              /\ UNCHANGED <<isConverting, downloads, error>>
         ELSE ConversionFailed(k)
    /\ UNCHANGED OthersConvert

\* Lines 425-439 and 444-446: page.render settles.  When it resolves,
\* canvas.toBlob is called and the promise of its callback is returned: the
\* finally runs on this return, before the callback has been called.
ConvertRenderSettles(k, resolved) ==
    /\ k \in 1 .. Len(conversions)
    /\ conversions[k].pc = "render"
    /\ IF resolved
         THEN /\ conversions' = [conversions EXCEPT ![k].pc = "toBlob"]
              /\ isConverting' = FALSE
              /\ UNCHANGED <<downloads, error>>
         ELSE ConversionFailed(k)
    /\ UNCHANGED OthersConvert

\* Lines 429-435: the callback of toBlob.  With a blob the promise resolves
\* and the caller goes on: window.open (lines 504-506), or the link is
\* clicked (454-463, 478-487) and downloadAllPagesAsImages waits 100 ms
\* (line 490).  Without a blob the promise stays pending for ever.
ToBlobCallback(k, blob) ==
    /\ k \in 1 .. Len(conversions)
    /\ conversions[k].pc = "toBlob"
    /\ IF ~blob
         THEN /\ conversions' = [conversions EXCEPT ![k].pc = "never"]
              /\ UNCHANGED downloads
         ELSE /\ downloads' = IF conversions[k].kind = "preview"
                                THEN downloads
                                ELSE downloads \cup {conversions[k].page}
              /\ conversions' = IF conversions[k].kind = "all"
                                  THEN [conversions EXCEPT ![k].pc = "delay"]
                                  ELSE Remove(conversions, k)
    /\ UNCHANGED <<isConverting, error>>
    /\ UNCHANGED OthersConvert

\* Line 490: the 100 ms are over.
DelayElapses(k) ==
    /\ k \in 1 .. Len(conversions)
    /\ conversions[k].pc = "delay"
    /\ HandlerGoesOn(k)
    /\ UNCHANGED <<downloads, error>>
    /\ UNCHANGED OthersConvert

NextConvert ==
    \/ previewCurrentPageAsImage
    \/ downloadCurrentPageAsImage
    \/ downloadAllPagesAsImages
    \/ \E k \in 1 .. MaxConversions, resolved \in BOOLEAN :
          ConvertGetPageSettles(k, resolved)
    \/ \E k \in 1 .. MaxConversions, resolved \in BOOLEAN :
          ConvertRenderSettles(k, resolved)
    \/ \E k \in 1 .. MaxConversions, blob \in BOOLEAN : ToBlobCallback(k, blob)
    \/ \E k \in 1 .. MaxConversions : DelayElapses(k)

(***************************************************************************)
(* PageNavigator: src/components/ScrollablePDFViewer.tsx, lines 164-226    *)
(***************************************************************************)

\* Longest document the navigator is given.
MaxPages == 12

\* Line 174.
delta == 2

\* The '...' entry of the list.
Dots == 0

Max(a, b) == IF a >= b THEN a ELSE b
Min(a, b) == IF a <= b THEN a ELSE b

\* Lines 178-184: the pages lo..hi in order, none when lo > hi.
Range(lo, hi) == [n \in 1 .. Max(0, hi - lo + 1) |-> lo + n - 1]

\* A variant of line 196 that pushes the last page whatever the page count.
PushesLastPageAlways(pages) == TRUE

\* Line 196: numPages > 1.
PushesLastPage(pages) == pages > 1

\* Lines 173-201.
getVisiblePages(pages, current) ==
    LET range == Range(Max(2, current - delta), Min(pages - 1, current + delta))
        head == IF current - delta > 2 THEN <<1, Dots>> ELSE <<1>>
        tail == IF current + delta < pages - 1 THEN <<Dots, pages>>
                ELSE IF PushesLastPage(pages) THEN <<pages>>
                ELSE <<>>
    IN  head \o range \o tail

\* The props PageNavigator is rendered with.
InitNavigator ==
    /\ pageCount \in 1 .. MaxPages
    /\ currentVisiblePage \in 1 .. pageCount
    /\ rangeWithDots = <<>>
    /\ npc = "props"

IdleNavigator ==
    /\ pageCount = 0
    /\ currentVisiblePage = 1
    /\ rangeWithDots = <<>>
    /\ npc = "idle"

\* Line 205: the render calls getVisiblePages().
RenderNavigator ==
    /\ npc = "props"
    /\ rangeWithDots' = getVisiblePages(pageCount, currentVisiblePage)
    /\ npc' = "done"
    /\ UNCHANGED <<pageCount, currentVisiblePage>>
    /\ UNCHANGED OthersNavigator

NextNavigator == RenderNavigator

(***************************************************************************)
(* Specifications                                                          *)
(***************************************************************************)

StartOverlay == InitOverlay /\ IdleCluster /\ IdleProject /\ IdleViewer /\ IdleConvert /\ IdleNavigator

SpecOverlay == StartOverlay /\ [][NextOverlay]_vars

StartCluster == InitCluster /\ IdleOverlay /\ IdleProject /\ IdleViewer /\ IdleConvert /\ IdleNavigator

SpecCluster == StartCluster /\ [][NextCluster]_vars

StartProject == InitProject /\ IdleOverlay /\ IdleCluster /\ IdleViewer /\ IdleConvert /\ IdleNavigator

SpecProject == StartProject /\ [][NextProject]_vars

StartNav == IdleViewer /\ IdleOverlay /\ IdleCluster /\ IdleProject /\ IdleConvert /\ IdleNavigator

SpecNav == StartNav /\ [][NextNav]_vars

StartLoad == IdleViewer /\ IdleOverlay /\ IdleCluster /\ IdleProject /\ IdleConvert /\ IdleNavigator

SpecLoad == StartLoad /\ [][NextLoad]_vars

StartRender == DocumentShown /\ IdleOverlay /\ IdleCluster /\ IdleProject /\ IdleConvert /\ IdleNavigator

SpecRender == StartRender /\ [][NextRender]_vars

StartPages == PagesMounted /\ IdleOverlay /\ IdleCluster /\ IdleProject /\ IdleConvert /\ IdleNavigator

SpecPages == StartPages /\ [][NextPages]_vars

StartScale == InitScale /\ IdleOverlay /\ IdleCluster /\ IdleProject /\ IdleConvert /\ IdleNavigator

SpecScale == StartScale /\ [][NextScale]_vars

StartConvert ==
    DocumentShown /\ InitConvert /\ IdleOverlay /\ IdleCluster /\ IdleProject
        /\ IdleNavigator

SpecConvert == StartConvert /\ [][NextConvert]_vars

StartNavigator ==
    InitNavigator /\ IdleOverlay /\ IdleCluster /\ IdleProject /\ IdleViewer
        /\ IdleConvert

SpecNavigator == StartNavigator /\ [][NextNavigator]_vars

(***************************************************************************)
(* Claims                                                                  *)
(***************************************************************************)

\* C1: selection exclusivity.  In every reachable state of a page's overlay
\* at most one region is selected, and a click on a region that is not
\* selected leaves that region selected and every other region unselected.
C1_SelectionExclusivity ==
    /\ [](Cardinality(SelectedSet) <= 1)
    /\ [][\A b \in Regions :
            (handleClick(b) /\ ~selected[b]) => SelectedSet' = {b}]_vars

\* Region 2 has been clicked while region 1 is attached: it is selected, shows
\* the selected look and holds the browser range, and region 1 is not selected.
C1_Witness ==
    /\ selected[2]
    /\ ~selected[1]
    /\ browserSelection = 2
    /\ wrapperStyle[2] = "selected"

\* Positions of the returned list at which span k stands.
Occurrences(k) ==
    {pos \in (1..Len(paragraphs)) \X (1..MaxSpans + 1) :
        /\ pos[2] <= Len(paragraphs[pos[1]])
        /\ paragraphs[pos[1]][pos[2]] = k}

\* C3: clustering completeness.  When groupSpansIntoParagraphs has returned,
\* the paragraphs partition the input: every input span stands at exactly one
\* position of exactly one paragraph, the sizes sum to the input length, no
\* paragraph is empty, and the empty input gives the empty list.
C3_ClusteringPartition ==
    gpc = "done" =>
        /\ \A k \in 1..Len(spans) : Cardinality(Occurrences(k)) = 1
        /\ FlattenLen(paragraphs) = Len(spans)
        /\ \A a \in 1..Len(paragraphs) : Len(paragraphs[a]) > 0
        /\ (Len(spans) = 0 => paragraphs = <<>>)

\* The clustering has returned two paragraphs for a list of four spans.
C3_Witness ==
    /\ gpc = "done"
    /\ Len(spans) = 4
    /\ Len(paragraphs) = 2

MaxOf(S) == CHOOSE m \in S : \A x \in S : x <= m

\* Largest bottom among the members of the paragraph being filled.
MaxBottomOfCurrent ==
    MaxOf({Bottom(spans[currentParagraph[k]]) : k \in 1..Len(currentParagraph)})

Max2(x, y) == IF x > y THEN x ELSE y

C6_ScaleFloorAndCap ==
    /\ FracLeq(<<MinScale, 10>>, calculateScale)
    /\ FracLeq(calculateScale, <<scale, 10>>)

\* The page is wider than a container narrower than the padding: the fit is
\* negative and the minimum applies.
C6_Witness ==
    /\ pageWidth = 612
    /\ containerWidth = 20
    /\ scale > MinScale
    /\ calculateScale = <<MinScale, 10>>

\* The page a settled lookup names: 0 when there is none.
TargetOfAnswer(answer) == IF answer.kind = "num" THEN answer.n + 1 ELSE 0
TargetOfIndex(index) == IF index = -1 THEN 0 ELSE index + 1

\* A step that ends a handleItemClick call whose destination does not resolve
\* to a page of 1..numPages, numPages being the page count of the document
\* the item was activated in.
BrokenDestinationStep ==
    \/ \E dest \in Dests :
          /\ handleItemClick(dest)
          /\ pdfDocument # 0
          /\ \/ dest.kind \in {"none", "other"}
             \/ dest.kind = "num" /\ dest.n + 1 \notin 1 .. numPages
    \/ \E k \in 1 .. Len(clicks), answer \in DestinationAnswers :
          /\ GetDestinationSettles(k, answer)
          /\ answer.kind # "ref"
          /\ TargetOfAnswer(answer) \notin 1 .. clicks[k].pages
    \/ \E k \in 1 .. Len(clicks), index \in PageIndexAnswers :
          /\ GetPageIndexSettles(k, index)
          /\ TargetOfIndex(index) \notin 1 .. clicks[k].pages

C9_LoadLifecycle ==
    [][/\ \A file \in Files :
            (PDFViewer_handleFileUpload(file) /\ IsPdf(file) /\ pdfJsLoaded)
                => isLoading'
       /\ \A k \in 1 .. Len(loads) :
            GetDocumentResolves(k) => (pdfDoc' # 0 /\ ~isLoading')
       /\ \A k \in 1 .. Len(loads) :
            GetDocumentRejects(k) => (error' # NoError /\ ~isLoading')]_vars

\* C10: invalid file rejection.  Choosing or dropping a file whose type is
\* not application/pdf sets an error and starts no load: the loading flag, the
\* file, the document, the page count, the current page and the scale are
\* unchanged.
C10_InvalidFileRejected ==
    [][\A file \in Files :
          (~IsPdf(file)
              /\ (PDFViewer_handleFileUpload(file) \/ PDFViewer_handleDrop(file)))
          => /\ error' \in {ErrSelectPdf, ErrDropPdf}
             /\ UNCHANGED <<isLoading, pdfFile, pdfDoc, totalPages, currentPage,
                            scale, loads>>]_vars

\* A file of another type has been refused while a document is shown on its
\* second page at another zoom.
C10_Witness ==
    /\ error = ErrSelectPdf
    /\ pdfDoc # 0 /\ pdfFile = pdfDoc /\ currentPage = 2
    /\ scale # DefaultScale /\ ~isLoading /\ loads = <<>>

\* C2: stale-render discard.  Once every render that was started has
\* resolved, whatever the order they resolved in, the container shows for the
\* page of the last render the surface of that render only: the surface of a
\* superseded render of the same page has been dropped and is not there
\* beside it.
C2_StaleRenderDiscarded ==
    (\A k \in 1 .. Len(renders) : renders[k].pc = "done")
        => \A n \in 1 .. Len(container) :
              renders[container[n]].page = renders[Len(renders)].page
                  => container[n] = Len(renders)

\* A step in which an await of the render of page p rejects.
PageFails(p) ==
    \/ PDFPage_getPage(p, FALSE)
    \/ PDFPage_render(p, FALSE)
    \/ PDFPage_getTextContent(p, FALSE)

\* C7: partial failure isolation.  A rejection in the render of one page
\* changes nothing of any other page and leaves the document mounted with no
\* error shown; a page whose own awaits have all resolved has its canvas
\* drawn and its text layer built whatever happened to the other pages, and
\* a page that is still rendering can go on.
C7_PartialFailureIsolation ==
    /\ [][\A p \in 1 .. PagesShown :
            PageFails(p)
                => /\ \A q \in 1 .. PagesShown \ {p} : pageTasks'[q] = pageTasks[q]
                   /\ UNCHANGED <<error, pdfDoc, isLoading>>]_vars
    /\ [](\A q \in 1 .. PagesShown :
            /\ pageTasks[q].pc = "done"
                  => pageTasks[q].canvas = "drawn" /\ pageTasks[q].text
            /\ pageTasks[q].pc = "render" => ENABLED PDFPage_render(q, TRUE)
            /\ pageTasks[q].pc = "getTextContent"
                  => ENABLED PDFPage_getTextContent(q, TRUE))
    /\ [](error = NoError /\ pdfDoc # 0)

\* The rasterization of page 2 has rejected; every other page has its canvas
\* and its text layer, and the viewer shows the document and no error.
C7_Witness ==
    /\ pageTasks[2].pc = "failed" /\ pageTasks[2].canvas = "sized"
    /\ \A q \in 1 .. PagesShown \ {2} :
          pageTasks[q] = [pc |-> "done", canvas |-> "drawn", text |-> TRUE]
    /\ error = NoError /\ pdfDoc # 0

\* C11: scale clamp.  From the initial scale, after any sequence of zoomIn,
\* zoomOut and resetZoom the scale is at least 0.3 and at most 3.0.
C11_ScaleClamp == scale >= MinScale /\ scale <= MaxScale

\* zoomOut from 0.4 has been floored at the minimum.
C11_Witness == scale = MinScale

\* A step in which getTextContent rejects for a render whose rasterization
\* has resolved.
TextRetrievalFails == \E k \in 1 .. Len(renders) : GetTextContentSettles(k, FALSE)

\* C12: text-extraction degradation.  When the text retrieval of a page
\* fails after its rasterization succeeded, the page stays shown with its
\* visual only and no user-facing error is set.
C12_TextExtractionDegradation ==
    [][(UNCHANGED <<error, container>>) \/ ~TextRetrievalFails]_vars

\* A click on a region that is selected.
ToggleOffStep == \E r \in Regions : selected[r] /\ handleClick(r)

\* C13: toggle-off.  A click on the region that is selected deselects it, and
\* afterwards no region is selected.
C13_ToggleOff == [][(SelectedSet' = {}) \/ ~ToggleOffStep]_vars

\* The pointer is still on a region whose wrapper the second click has made
\* transparent again.
C13_Witness ==
    \E r \in wrappers :
        pointer = r /\ wrapperStyle[r] = "transparent" /\ SelectedSet = {}

\* C14: click outside.  A click outside every region and outside the text
\* layer leaves no region selected; a click inside the text layer off every
\* region changes neither the selection nor a highlight.
C14_ClickOutside ==
    [][/\ (SelectedSet' = {}) \/ ~handleGlobalClick("outside")
       /\ (UNCHANGED <<selected, wrapperStyle, spanStyle, browserSelection>>)
              \/ ~handleGlobalClick("textLayer")]_vars

\* A region is selected and the pointer is off every region, so that the
\* next click goes to the document listener.
C14_Witness == pointer = 0 /\ SelectedSet # {}

\* C15: hover transitions.  Entering a region gives it the hover highlight;
\* leaving an unselected region makes it transparent again; leaving the
\* selected region changes no selected flag and no highlight of any region.
C15_HoverTransitions ==
    [][\A r \in Regions :
          /\ (wrapperStyle'[r] = "hover" /\ spanStyle'[r] = "hover")
                 \/ ~handleMouseEnter(r)
          /\ (/\ wrapperStyle' = [wrapperStyle EXCEPT ![r] = "transparent"]
              /\ spanStyle' = [spanStyle EXCEPT ![r] = "transparent"]
              /\ UNCHANGED <<selected, browserSelection>>)
                 \/ selected[r] \/ ~handleMouseLeave(r)
          /\ (UNCHANGED <<selected, wrapperStyle, spanStyle,
                          browserSelection, wrappers>>)
                 \/ ~selected[r] \/ ~handleMouseLeave(r)]_vars

\* The pointer has left a selected region, whose wrapper still has the
\* highlight the click gave it.
C15_Witness ==
    \E r \in wrappers :
        pointer = 0 /\ selected[r] /\ wrapperStyle[r] = "selected"

C19_OverlayAttached == (textLayer /\ ~timer) => wrappers = Regions

\* C16: selection range on select.  The range set when a region becomes
\* selected covers exactly the runs of its paragraph, whatever the document
\* order of the run elements is.
C16_SelectionRange ==
    gpc = "done" =>
        \A k \in 1 .. Len(paragraphs) :
            SelectedRange(paragraphs[k]) =
                {paragraphs[k][n] : n \in 1 .. Len(paragraphs[k])}

\* C20: reading-order sort.  In the sorted sequence two runs whose tops
\* differ by less than 10 px stand in ascending order of left, and two runs
\* whose tops differ by 10 px or more stand in ascending order of top.
C20_ReadingOrderSort ==
    \A a, b \in 1 .. Len(spansArray) :
        a < b =>
            LET x == spans[spansArray[a]]
                y == spans[spansArray[b]]
            IN  IF Abs(x.top - y.top) < SameLinePx
                  THEN x.left <= y.left
                  ELSE x.top < y.top

Precedes(par, m, n) ==
    LET x == spans[par[m]]
        y == spans[par[n]]
    IN  \/ x.top < y.top
        \/ x.top = y.top /\ x.left < y.left
        \/ x.top = y.top /\ x.left = y.left /\ m < n

\* C21: paragraph gap invariant.  In every returned paragraph, with its
\* members taken in the order of (top, then left), the top of a member minus
\* the largest bottom of the members before it is at most 0.8 times its
\* height.
C21_ParagraphGap ==
    gpc = "done" =>
        \A k \in 1 .. Len(paragraphs) :
            \A n \in 1 .. Len(paragraphs[k]) :
                LET par == paragraphs[k]
                    before == {m \in 1 .. Len(par) : Precedes(par, m, n)}
                    rect == spans[par[n]]
                IN  before # {} =>
                        10 * (rect.top - MaxOf({Bottom(spans[par[m]]) : m \in before}))
                            <= GapTenths * rect.height

\* C22: teardown on new upload.  Once a new file is accepted the document
\* of the previous file is gone: a document that is shown is the document of
\* the file named as current, also after a load that failed.
C22_TeardownOnUpload == pdfDoc # 0 => pdfDoc = pdfFile

\* C27: latest upload wins.  When every started load has settled without a
\* failure, the document and the page count are those of the file chosen
\* last; and the loading flag is set as long as a load of that file is
\* pending.
C27_LatestUploadWins ==
    /\ (loads = <<>> /\ error = NoError /\ ~uncaught /\ pdfDoc # 0)
          => (pdfDoc = pdfFile /\ totalPages = PagesOf(pdfFile))
    /\ (\E k \in 1 .. Len(loads) : loads[k].file = pdfFile) => isLoading

\* C24: font-size floor.  Every text element placed on a page, in HTML mode
\* and over a canvas, has a font size of at least 8 px.
C24_FontSizeFloor ==
    /\ \A n \in 1 .. Len(htmlTextLayer) :
           htmlTextLayer[n].fontSize >= MinFontSize
    /\ \A n \in 1 .. Len(canvasTextLayer) :
           canvasTextLayer[n].fontSizeSquared >= MinFontSize * MinFontSize

\* C23: regions follow the viewport.  After the page has been rendered again
\* for another page number or effective scale, no region placed for the
\* earlier viewport is attached, and once the text layer is there and no
\* attachment is pending the regions of the new viewport are attached.
C23_RegionsFollowViewport ==
    /\ wrappers # {} => ~stale
    /\ (viewportChanged /\ textLayer /\ ~timer) => wrappers = Regions

\* C29: selected highlight consistency.  The wrapper of a region that is
\* selected shows the selected highlight, not the hover highlight and not the
\* unhighlighted style; the wrapper of a region that is neither selected nor
\* under the pointer shows no highlight.
C29_HighlightConsistency ==
    \A r \in wrappers :
        /\ selected[r] => wrapperStyle[r] = "selected"
        /\ (~selected[r] /\ pointer # r) => wrapperStyle[r] = "transparent"

\* C25: page bounds.  Whenever the page count of a loaded document is known,
\* the current page is one of its pages: 1 <= currentPage <= numPages, after
\* any sequence of page steps, page requests, outline and link jumps and
\* uploads.
C25_PageBounds == numPages # 0 => currentPage \in 1 .. numPages

\* C26: single page surface.  The container holds at most one page surface
\* at any time, and once every render that was started has run to its end it
\* holds exactly the surface of the last one, the render of the current page
\* at the current scale.
C26_SinglePageSurface ==
    /\ Len(container) <= 1
    /\ (\A k \in 1 .. Len(renders) : renders[k].pc = "done")
          => /\ container = <<Len(renders)>>
             /\ renders[Len(renders)].page = currentPage
             /\ renders[Len(renders)].scale = scale

\* C28: conversion exclusivity.  While a download of all pages is under
\* way, from its start until it has processed the last page, isConverting is
\* true; once no conversion is under way it is false.
C28_ConversionExclusive ==
    /\ (\E k \in 1 .. Len(conversions) : conversions[k].kind = "all")
          => isConverting
    /\ conversions = <<>> => ~isConverting

\* The positions of the list that hold a page number.
PagePositions == {k \in 1 .. Len(rangeWithDots) : rangeWithDots[k] # Dots}

\* C30: page overview list.  For every page count of at least 1 and every
\* current page of the document, the list getVisiblePages returns starts
\* with page 1, ends with the last page, contains the current page, has its
\* page numbers in strictly increasing order, contains every page within 2
\* of the current page, and has a '...' only between two listed pages that
\* are not consecutive.
C30_PageOverview ==
    npc = "done" =>
        /\ Len(rangeWithDots) >= 1
        /\ rangeWithDots[1] = 1
        /\ rangeWithDots[Len(rangeWithDots)] = pageCount
        /\ \E k \in PagePositions : rangeWithDots[k] = currentVisiblePage
        /\ \A j, k \in PagePositions :
              /\ rangeWithDots[k] \in 1 .. pageCount
              /\ j < k => rangeWithDots[j] < rangeWithDots[k]
        /\ \A page \in 1 .. pageCount :
              (page - currentVisiblePage \in -delta .. delta)
                  => \E k \in PagePositions : rangeWithDots[k] = page
        /\ \A k \in 1 .. Len(rangeWithDots) :
              rangeWithDots[k] = Dots
                  => /\ k - 1 \in PagePositions
                     /\ k + 1 \in PagePositions
                     /\ rangeWithDots[k + 1] > rangeWithDots[k - 1] + 1

\* The list of page 6 of 12 has been built, with a '...' on both sides.
C30_Witness ==
    /\ npc = "done"
    /\ pageCount = 12 /\ currentVisiblePage = 6
    /\ rangeWithDots = <<1, Dots, 4, 5, 6, 7, 8, Dots, 12>>

====
